---- MODULE Spec2Model ----
(***************************************************************************)
(* State machine of the einkframe client: the Application of index.js, the *)
(* MQTTClient of src/mqtt/MQTTClient.js, the ConfigManager of              *)
(* src/config/ConfigManager.js and the DisplayController with its IT8951   *)
(* adapter.  Every action is one callback of the Node.js event loop (a     *)
(* macrotask together with the microtasks it triggers).                    *)
(***************************************************************************)
EXTENDS Integers, Sequences, FiniteSets, TLC

(* ------------------------------ bounds -------------------------------- *)
MaxArrivals == 3
MaxAppArrivals == 1
MaxConfigs == 2
MaxAppConfigs == 1
MaxConnectCalls == 2
MaxConnectEvents == 2
MaxAppConnectEvents == 1
MaxDropped == 1
MaxSignals == 2
MaxLateArrivals == 2

(* ------------------------------ data ---------------------------------- *)
DeviceId == "abc"
OtherDeviceId == "xyz"
DeviceIds == {DeviceId, OtherDeviceId}

\* inbound topics, as the list of their '/'-separated segments
InboundTopics ==
  {<<"device", d, "image", "display">> : d \in DeviceIds}
    \cup {<<"device", d, "config">> : d \in DeviceIds}
    \cup {<<"image", "display">>}

\* the two topics the client subscribes to
imageDisplayTopic == "imageDisplayTopic"
configTopic == "configTopic"
SubTopics == {imageDisplayTopic, configTopic}

\* sample asset payloads (image bytes)
Payloads == {"010203", "ff"}
None == [id |-> 0, payload |-> ""]

\* JSON values of a config payload: a number (in tenths), a string, a boolean
Absent == [t |-> "absent", v |-> 0, s |-> ""]
JNum(n) == [t |-> "num", v |-> n, s |-> ""]
JStr(str) == [t |-> "str", v |-> 0, s |-> str]
JBool(b) == [t |-> "bool", v |-> IF b THEN 1 ELSE 0, s |-> ""]
JTrue == JBool(TRUE)
JFalse == JBool(FALSE)
NaN == [t |-> "nan", v |-> 0, s |-> ""]

\* brightness is kept in tenths (15 is 1.5)
DefaultBrightness == JNum(10)

\* the "display" member of a config payload: its sub-fields "brightness" and
\* "vcom", and other, a sub-field the program has no name for
NoDisplay == [present |-> FALSE, brightness |-> Absent, vcom |-> Absent, other |-> Absent]
Display(b) == [present |-> TRUE, brightness |-> b, vcom |-> Absent, other |-> Absent]

\* the "gpio" member of a config payload
NoGpio == [present |-> FALSE, enableShutdownSwitch |-> Absent]
Gpio(e) == [present |-> TRUE, enableShutdownSwitch |-> e]

\* ConfigManager.display as constructed: vcom, and no sub-field of another name
DefaultVcom == 2270
DefaultDisplay == [vcom |-> JNum(DefaultVcom), other |-> Absent]

\* A config payload after JSON.parse: display is the member "display" (with its
\* "brightness"), brightness the top-level member "brightness", and
\* displayBrightness and enableAutoShutdown the members the README documents.
\* parses: JSON.parse returns and the member reads do not throw; object: the
\* parsed value is a JSON object.
Payload(d, b, a, rb, ra) ==
  [parses |-> TRUE, object |-> TRUE, display |-> d, brightness |-> b,
   autoShutdown |-> a, displayBrightness |-> rb, enableAutoShutdown |-> ra,
   gpio |-> NoGpio]

\* a payload that is no JSON text, or the JSON text null
NoConfig ==
  [parses |-> FALSE, object |-> FALSE, display |-> NoDisplay, brightness |-> Absent,
   autoShutdown |-> Absent, displayBrightness |-> Absent,
   enableAutoShutdown |-> Absent, gpio |-> NoGpio]

\* a JSON number, string or boolean, such as 42: JSON.parse returns it and every
\* member read of it is undefined
ScalarConfig ==
  [Payload(NoDisplay, Absent, Absent, Absent, Absent) EXCEPT !.object = FALSE]

\* the payload of the README: {"enableAutoShutdown": true, "displayBrightness": 1.5}
ReadmeConfig == Payload(NoDisplay, Absent, Absent, JNum(15), JTrue)

ConfigPayloads ==
  {NoConfig, ReadmeConfig}
    \cup {Payload(d, Absent, a, Absent, Absent) :
            d \in {NoDisplay, Display(JNum(15))}, a \in {Absent, JTrue, JFalse}}

\* the values a brightness member is given in the config updates below
BrightnessValues ==
  {Absent, JNum(15), JNum(25), JNum(0 - 5), JStr("1.5"), JStr("bright")}

\* config updates that differ in where and how they carry a brightness
BrightnessPayloads ==
  {NoConfig}
    \cup {Payload(d, b, Absent, rb, Absent) :
            d \in {NoDisplay} \cup {Display(x) : x \in BrightnessValues},
            b \in {Absent, JNum(5), JStr("bright")},
            rb \in {Absent, JNum(15)}}

\* a config update that enables auto-shutdown, and a payload that is not JSON
ExitPayloads == {NoConfig, Payload(NoDisplay, Absent, JTrue, Absent, Absent)}

\* config updates that carry the field "autoShutdown" with values of every kind
FlagPayloads ==
  {Payload(NoDisplay, Absent, a, Absent, Absent) :
     a \in {JTrue, JFalse, JStr("true"), JNum(1)}}

\* config updates with sub-fields of "display" and "gpio" other than brightness
MergePayloads ==
  {[Payload(NoDisplay, Absent, Absent, Absent, Absent) EXCEPT !.display = d] :
     d \in {[Display(Absent) EXCEPT !.vcom = JNum(1500)],
            [Display(JNum(15)) EXCEPT !.other = JNum(1)]}}
    \cup {[Payload(NoDisplay, Absent, Absent, Absent, Absent)
             EXCEPT !.gpio = Gpio(JTrue)]}

\* the config updates of the configuration model
UpdatePayloads ==
  BrightnessPayloads \cup ConfigPayloads \cup FlagPayloads \cup MergePayloads
    \cup {ScalarConfig}

VARIABLES
  \* Application (index.js)
  started,             \* app.init() has run its synchronous part
  displayInitialized,
  bufferedImage,
  imageProcessed,
  configProcessed,
  shuttingDown,
  shutdownPhase,       \* "idle", "grace", "disconnecting", "done"
  raceDone,            \* init() has passed its Promise.race
  gpioHandler,         \* initGpio has created the GPIOHandler
  \* DisplayController and adapter
  displayInit,         \* "idle", "pending", "ready", "failed"
  ctrlInitialized,     \* DisplayController.isInitialized
  driverAvailable,     \* adapter.driverAvailable (FALSE: mock mode)
  inFlight,            \* ids of the messages whose render has started and not ended
  initPhase,           \* adapter.init: "attempt", "wait" (before a retry), "done"
  initFailures,        \* attempts of initializeDisplay that have failed
  \* ConfigManager
  autoShutdownEnabled, \* config.autoShutdown.enabled
  brightness,          \* config.display.brightness
  displayConfig,       \* config.display: vcom and the sub-field of another name
  gpioConfig,          \* config.gpio.enableShutdownSwitch
  \* MQTTClient
  client,              \* "none", "live", "ended"
  isConnected,
  connectionPromise,   \* 0 is null
  globalConnectionPromise,
  resolved,            \* the promises that are resolved
  timeouts,            \* the promises whose connect timeout is still scheduled
  clientPromise,       \* the promise the live client's handlers resolve
  topicsSubscribed,
  pendingSubs,         \* per topic, the subscribes sent and not acknowledged
  notifyPending,       \* setImmediate(onMqttConnected) callbacks queued
  latestImageBuffer,
  imageReceived,
  link,                \* transport: "idle", "connecting", "connected", "offline"
  \* history
  arrivals,            \* accepted asset messages, with the renders in flight at arrival
  renderLog,           \* renders started: message and origin
  rendered,            \* ids of the messages whose render completed successfully
  preReady,            \* number of assets that arrived before the display was ready
  shutdownTimers,      \* grace timers scheduled by shutdownSystem
  gateLog,             \* the last evaluation of checkAutoShutdown
  connectCalls,        \* what each call of connect() returned
  connectAttempts,     \* calls of mqtt.connect
  connectEvents,       \* 'connect' events of the transport
  subLog,              \* the last call of subscribeToTopicsFast
  lastConfig,          \* the last payload given to updateConfig
  configCount,
  inbound,             \* number of inbound messages whose device segment is not DeviceId
  shutdownLog,         \* the steps the shutdown sequence has taken, in order
  timedOut,            \* the promises whose connect timeout has fired
  errorLog,            \* isConnected after the last run of handleError
  configTick,          \* when the config handler ran, relative to the 'message' event
  \* the process and its signals
  process,             \* "running"; "exited": process.exit(0) of the SIGINT handler;
                       \* "killed": ended by a signal without a handler; "off": the
                       \* platform was told to shut down; "halted": process.exit(0)
                       \* of GPIOHandler.shutdownSystem; "crashed": uncaught error
  sigintWaiting,       \* SIGINT handlers that await disconnect()
  platformTimer,       \* the timer of GPIOHandler.shutdownSystem is scheduled
  exitLog,             \* the steps the SIGINT handler has taken, in order
  signals              \* signals received

appVars == <<started, displayInitialized, bufferedImage, imageProcessed,
             configProcessed, shuttingDown, shutdownPhase, raceDone>>
displayVars == <<displayInit, ctrlInitialized, driverAvailable, inFlight>>
configVars == <<autoShutdownEnabled, brightness, displayConfig, gpioConfig>>
connVars == <<client, isConnected, connectionPromise, globalConnectionPromise,
              resolved, timeouts, clientPromise, notifyPending, link>>
subVars == <<topicsSubscribed, pendingSubs>>
cacheVars == <<latestImageBuffer, imageReceived>>
\* everything the program itself holds
auxVars == <<gpioHandler, initPhase, initFailures>>
progVars == <<appVars, displayVars, configVars, connVars, subVars, cacheVars, auxVars>>
histVars == <<arrivals, renderLog, rendered, preReady, shutdownTimers, gateLog,
              connectCalls, connectAttempts, connectEvents, subLog, lastConfig,
              configCount, inbound>>
traceVars == <<shutdownLog, timedOut, errorLog, configTick>>
signalVars == <<sigintWaiting, platformTimer, exitLog, signals>>
procVars == <<process, signalVars>>
vars == <<progVars, histVars, traceVars, procVars>>

(* --------------------------- pure functions --------------------------- *)

\* MQTTClient.extractDeviceIdFromTopic
extractDeviceIdFromTopic(topic) ==
  IF Len(topic) >= 3 THEN topic[2] ELSE "unknown"

\* topic.includes('image/display')
IsImageTopic(topic) ==
  \E i \in 1..(Len(topic) - 1) : topic[i] = "image" /\ topic[i + 1] = "display"

\* topic.includes('/config')
IsConfigTopic(topic) ==
  \E i \in 2..Len(topic) : topic[i] = "config"

AcceptsEveryDevice(topic) == TRUE

\* the device filter of handleImageMessage and handleConfigMessage
ForThisDevice(topic) == extractDeviceIdFromTopic(topic) = DeviceId

CriteriaWithoutImage(conn, img, cfg, en) == conn /\ cfg /\ en

\* the condition of checkAutoShutdown
AutoShutdownCriteria(conn, img, cfg, en) == conn /\ img /\ cfg /\ en

LatchIgnored(latch) == TRUE

\* the latch test of shutdownSystem: the sequence starts only with the latch open
LatchOpen(latch) == ~latch

BufferKeepsFirst(buf, msg) == IF buf = None THEN msg ELSE buf

\* handleImageMessage, display not ready: the slot after the arrival of msg
BufferAfterArrival(buf, msg) == msg

BufferNotCleared(buf) == buf

\* processBufferedImage: the slot after the buffered image is taken
BufferAfterDrain(buf) == None

ConnectIgnoresPending(promise) == FALSE

\* connect(): an existing connection promise is returned
ReturnsExistingPromise(promise) == promise # 0

SubscribeAlways(subscribed, topic) == TRUE

\* subscribeToTopicsFast: a topic is subscribed only when it is not in the set
NeedsSubscribe(subscribed, topic) == topic \notin subscribed

\* the strings of the payloads that parseFloat reads as a number, with their value
NumericStrings == {"1.5"}
StringValue(str) == IF str = "1.5" THEN 15 ELSE 0

\* parseFloat of a JSON value
parseFloat(val) ==
  IF val.t = "num" THEN val
  ELSE IF val.t = "str" /\ val.s \in NumericStrings THEN JNum(StringValue(val.s))
  ELSE NaN

\* handleConfigMessage, between JSON.parse and updateConfig: the "display"
\* member of configData after the brightness has been extracted
extractBrightness(payload) ==
  IF payload.display.present /\ payload.display.brightness.t # "absent"
    THEN IF parseFloat(payload.display.brightness) # NaN
           THEN [payload.display EXCEPT
                   !.brightness = parseFloat(payload.display.brightness)]
           ELSE payload.display
  ELSE IF payload.brightness.t # "absent" /\ parseFloat(payload.brightness) # NaN
    THEN [payload.display EXCEPT !.present = TRUE,
                                 !.brightness = parseFloat(payload.brightness)]
  ELSE payload.display

\* updateConfig: Object.assign(this.display, configData.display)
BrightnessAfterUpdate(cur, payload) ==
  LET display == extractBrightness(payload)
  IN IF display.present /\ display.brightness.t # "absent"
       THEN display.brightness
       ELSE cur

\* updateConfig: Object.assign(this.display, configData.display), for the
\* sub-fields other than brightness
DisplayAfterUpdate(cur, payload) ==
  LET display == extractBrightness(payload)
  IN [vcom |-> IF display.present /\ display.vcom.t # "absent"
                 THEN display.vcom ELSE cur.vcom,
      other |-> IF display.present /\ display.other.t # "absent"
                  THEN display.other ELSE cur.other]

\* updateConfig: Object.assign(this.gpio, configData.gpio)
GpioAfterUpdate(cur, payload) ==
  IF payload.gpio.present /\ payload.gpio.enableShutdownSwitch.t # "absent"
    THEN payload.gpio.enableShutdownSwitch
    ELSE cur

\* a flag that any truthy value of the field sets
TruthyFlag(cur, payload) ==
  IF payload.autoShutdown.t # "absent"
    THEN payload.autoShutdown \notin {JFalse, JNum(0), JStr("")}
    ELSE cur

\* updateConfig: the flag is written only when the field is defined
AutoShutdownAfterUpdate(cur, payload) ==
  IF payload.autoShutdown.t # "absent" THEN payload.autoShutdown = JTrue ELSE cur

TimeoutLeavesPending(res, p) == res

\* the connect timeout of connect(): resolve()
ResolvedAfterTimeout(res, p) == res \cup {p}

DriverKept(available) == available

\* adapter.init after the last failed attempt: this.driverAvailable = false
DriverAfterFallback(available) == FALSE

\* adapter.init: const maxAttempts = 3
maxAttempts == 3

GpioBeforeDisplay(gpio) ==
  <<"disconnected">>
    \o (IF gpio THEN <<"gpioClose", "platformShutdown">> ELSE <<>>)
    \o <<"displayClose">>

\* shutdownSystem after `await this.mqttClient.disconnect()`: close the display,
\* then, with a GPIO handler, close it and ask it to shut the platform down
StepsAfterDisconnect(gpio) ==
  <<"disconnected", "displayClose">>
    \o (IF gpio THEN <<"gpioClose", "platformShutdown">> ELSE <<>>)

\* an error that no handler catches ends the process
Uncaught(proc) == "crashed"

\* an error listener or a catch branch that logs the error and returns: the
\* process goes on as it was
Caught(proc) == proc

\* the SIGINT handler after `await this.mqttClient.disconnect()`: close the
\* display, then, with a GPIO handler, close it; process.exit(0) follows
StepsOfGracefulExit(gpio) ==
  <<"disconnected", "displayClose">> \o (IF gpio THEN <<"gpioClose">> ELSE <<>>)

\* a connection that is not announced to the application
NotifyDropped(pending) == pending

\* MQTTClient.handleConnect: setImmediate(() => this.messageHandler.onMqttConnected())
NotifyAfterConnect(pending) == pending + 1

\* a retry that starts at once after a failed attempt
RetryAtOnce(failures) == IF failures = maxAttempts THEN "done" ELSE "attempt"

\* adapter.init, catch branch of an attempt: after the last attempt init is
\* done, otherwise it waits before the next attempt
PhaseAfterFailure(failures) == IF failures = maxAttempts THEN "done" ELSE "wait"

\* a drain that never takes the buffered image
NeverDrains(ready, buf) == FALSE

\* processBufferedImage: if (this.displayInitialized && bufferedImage)
DrainsBuffer(ready, buf) == ready /\ buf # None

MaxOf(S) == IF S = {} THEN 0 ELSE CHOOSE x \in S : \A y \in S : y <= x

\* a new Promise object
NewPromise == MaxOf({connectCalls[i].ret : i \in 1..Len(connectCalls)}) + 1

(* ------------------------------- Init --------------------------------- *)
Init ==
  /\ started = FALSE
  /\ displayInitialized = FALSE
  /\ bufferedImage = None
  /\ imageProcessed = FALSE
  /\ configProcessed = FALSE
  /\ shuttingDown = FALSE
  /\ shutdownPhase = "idle"
  /\ raceDone = FALSE
  /\ displayInit = "idle"
  /\ ctrlInitialized = FALSE
  /\ driverAvailable = FALSE
  /\ inFlight = {}
  /\ autoShutdownEnabled = FALSE
  /\ brightness = DefaultBrightness
  /\ displayConfig = DefaultDisplay
  /\ gpioConfig = Absent
  /\ process = "running"
  /\ sigintWaiting = 0
  /\ platformTimer = FALSE
  /\ exitLog = <<>>
  /\ signals = 0
  /\ client = "none"
  /\ isConnected = FALSE
  /\ connectionPromise = 0
  /\ globalConnectionPromise = 0
  /\ resolved = {}
  /\ timeouts = {}
  /\ clientPromise = 0
  /\ topicsSubscribed = {}
  /\ pendingSubs = [t \in SubTopics |-> 0]
  /\ notifyPending = 0
  /\ latestImageBuffer = None
  /\ imageReceived = FALSE
  /\ link = "idle"
  /\ arrivals = <<>>
  /\ renderLog = <<>>
  /\ rendered = {}
  /\ preReady = 0
  /\ shutdownTimers = 0
  /\ gateLog = [conn |-> FALSE, img |-> FALSE, cfg |-> FALSE, en |-> FALSE,
                latch |-> FALSE, fired |-> FALSE]
  /\ connectCalls = <<>>
  /\ connectAttempts = 0
  /\ connectEvents = 0
  /\ subLog = [had |-> {}, issued |-> {}, after |-> {}]
  /\ lastConfig = NoConfig
  /\ configCount = 0
  /\ inbound = 0
  /\ gpioHandler = FALSE
  /\ initPhase = "attempt"
  /\ initFailures = 0
  /\ shutdownLog = <<>>
  /\ timedOut = {}
  /\ errorLog = "none"
  /\ configTick = "none"

(* ------------------- Application: gate and renders -------------------- *)

\* checkAutoShutdown followed by shutdownSystem, with the values the handler
\* has just written for imageProcessed, configProcessed and the flag
checkAutoShutdown(img, cfg, en) ==
  LET conn == started /\ isConnected
      fires == AutoShutdownCriteria(conn, img, cfg, en) /\ LatchOpen(shuttingDown)
  IN /\ shuttingDown' = (shuttingDown \/ fires)
     /\ shutdownTimers' = shutdownTimers + (IF fires THEN 1 ELSE 0)
     /\ shutdownPhase' = IF fires THEN "grace" ELSE shutdownPhase
     /\ gateLog' = [conn |-> conn, img |-> img, cfg |-> cfg, en |-> en,
                    latch |-> shuttingDown, fired |-> fires]

NoGate == UNCHANGED <<shuttingDown, shutdownTimers, shutdownPhase, gateLog>>

\* Application.displayImage -> DisplayController.displayImage -> adapter.displayImage.
\* With the driver the render runs in a child process and ends in a later
\* callback; in mock mode it resolves at once and the handler goes on to the gate.
displayImage(msg, src, drv) ==
  /\ renderLog' = Append(renderLog, [msg |-> msg, src |-> src])
  /\ IF drv
       THEN /\ inFlight' = inFlight \cup {msg.id}
            /\ UNCHANGED <<imageProcessed, rendered>>
            /\ NoGate
       ELSE /\ imageProcessed' = TRUE
            /\ rendered' = rendered \cup {msg.id}
            /\ UNCHANGED inFlight
            /\ checkAutoShutdown(TRUE, configProcessed, autoShutdownEnabled)

NoRender ==
  /\ UNCHANGED <<renderLog, inFlight, imageProcessed, rendered>>
  /\ NoGate

\* Application.processBufferedImage, with the ready flag as the caller left it
processBufferedImage(ready, drv) ==
  IF DrainsBuffer(ready, bufferedImage)
    THEN /\ bufferedImage' = BufferAfterDrain(bufferedImage)
         /\ displayImage(bufferedImage, "buffer", drv)
    ELSE /\ UNCHANGED bufferedImage
         /\ NoRender

\* Application.handleImageMessage
handleImageMessage(msg) ==
  IF ~displayInitialized
    THEN /\ bufferedImage' = BufferAfterArrival(bufferedImage, msg)
         /\ preReady' = preReady + 1
         /\ UNCHANGED ctrlInitialized
         /\ NoRender
    ELSE /\ displayImage(msg, "direct", driverAvailable)
         /\ ctrlInitialized' = TRUE
         /\ UNCHANGED <<bufferedImage, preReady>>

\* Application.handleConfigMessage with ConfigManager.updateConfig
handleConfigMessage(payload) ==
  /\ configCount' = configCount + 1
  /\ IF ~payload.parses
       THEN /\ UNCHANGED <<brightness, autoShutdownEnabled, configProcessed,
                           lastConfig, displayConfig, gpioConfig>>
            /\ process' = Caught(process)
            /\ NoGate
       ELSE /\ brightness' = BrightnessAfterUpdate(brightness, payload)
            /\ displayConfig' = DisplayAfterUpdate(displayConfig, payload)
            /\ gpioConfig' = GpioAfterUpdate(gpioConfig, payload)
            /\ autoShutdownEnabled' = AutoShutdownAfterUpdate(autoShutdownEnabled, payload)
            /\ configProcessed' = TRUE
            /\ lastConfig' = payload
            /\ UNCHANGED process
            /\ checkAutoShutdown(imageProcessed, TRUE,
                                 AutoShutdownAfterUpdate(autoShutdownEnabled, payload))

(* ----------------------- MQTTClient: subscribe ------------------------ *)

\* MQTTClient.subscribeToTopicsFast: the subscribes it sends
subscribeToTopicsFast ==
  LET issued == {t \in SubTopics :
                   client = "live" /\ NeedsSubscribe(topicsSubscribed, t)}
  IN /\ pendingSubs' = [t \in SubTopics |->
                          pendingSubs[t] + (IF t \in issued THEN 1 ELSE 0)]
     /\ UNCHANGED topicsSubscribed
     /\ subLog' = [had |-> topicsSubscribed, issued |-> issued,
                   after |-> topicsSubscribed']

NoSubscribe == UNCHANGED <<topicsSubscribed, pendingSubs, subLog>>

(* ------------------------ MQTTClient: connect ------------------------- *)

\* MQTTClient.connect; fresh: the global client is younger than 30 s
connectWith(fresh) ==
  LET firstPending == Len(connectCalls) > 0 /\ connectCalls[1].ret \notin resolved
      Call(ret, attempts) ==
        Append(connectCalls, [ret |-> ret, attempts |-> attempts,
                              firstPending |-> firstPending])
  IN IF fresh /\ ReturnsExistingPromise(globalConnectionPromise)
       THEN /\ connectCalls' = Call(globalConnectionPromise, connectAttempts)
            /\ UNCHANGED <<connVars, connectAttempts>>
            /\ NoSubscribe
     ELSE IF ReturnsExistingPromise(connectionPromise)
       THEN /\ connectCalls' = Call(connectionPromise, connectAttempts)
            /\ UNCHANGED <<connVars, connectAttempts>>
            /\ NoSubscribe
     ELSE IF client = "live" /\ link = "connected"
       THEN /\ isConnected' = TRUE
            /\ subscribeToTopicsFast
            /\ resolved' = resolved \cup {NewPromise}
            /\ connectCalls' = Call(NewPromise, connectAttempts)
            /\ UNCHANGED <<client, connectionPromise, globalConnectionPromise, timeouts,
                           clientPromise, notifyPending, link, connectAttempts>>
     ELSE /\ connectAttempts' = connectAttempts + 1
          /\ connectCalls' = Call(NewPromise, connectAttempts + 1)
          /\ timeouts' = timeouts \cup {NewPromise}
          /\ connectionPromise' = NewPromise
          /\ NoSubscribe
          /\ UNCHANGED <<isConnected, notifyPending>>
          /\ \/ \* mqtt.connect returns the client
                /\ client' = "live"
                /\ link' = "connecting"
                /\ clientPromise' = NewPromise
                /\ globalConnectionPromise' = connectionPromise
                /\ UNCHANGED resolved
             \/ \* mqtt.connect throws: the catch branch resolves
                /\ resolved' = resolved \cup {NewPromise}
                /\ UNCHANGED <<client, link, clientPromise, globalConnectionPromise>>

connect == \E fresh \in BOOLEAN : connectWith(fresh)

(* ------------------------------ actions ------------------------------- *)

\* Application.init up to its await: initDisplayAsync and initMqttAsync start
AppInit ==
  /\ ~started
  /\ started' = TRUE
  /\ displayInit' = "pending"
  /\ connect
  /\ UNCHANGED <<procVars, displayInitialized, bufferedImage, imageProcessed, configProcessed,
                 shuttingDown, shutdownPhase, raceDone, ctrlInitialized,
                 driverAvailable, inFlight, configVars, cacheVars, arrivals,
                 renderLog, rendered, preReady, shutdownTimers, gateLog,
                 connectEvents, lastConfig, configCount, inbound, auxVars, traceVars>>

\* a further call of connect() on the same client
ConnectAgain ==
  /\ started
  /\ Len(connectCalls) < MaxConnectCalls
  /\ connect
  /\ UNCHANGED <<procVars, appVars, displayVars, configVars, cacheVars, arrivals, renderLog,
                 rendered, preReady, shutdownTimers, gateLog, connectEvents,
                 lastConfig, configCount, inbound, auxVars, traceVars>>

\* the connect timeout of connect() fires
ConnectTimeout(p) ==
  /\ p \in timeouts
  /\ timeouts' = timeouts \ {p}
  /\ resolved' = ResolvedAfterTimeout(resolved, p)
  /\ timedOut' = timedOut \cup {p}
  /\ IF ~isConnected /\ client # "none"
       THEN subscribeToTopicsFast
       ELSE NoSubscribe
  /\ UNCHANGED <<procVars, appVars, displayVars, configVars, cacheVars, client, isConnected,
                 connectionPromise, globalConnectionPromise, clientPromise,
                 notifyPending, link, arrivals, renderLog, rendered, preReady,
                 shutdownTimers, gateLog, connectCalls, connectAttempts,
                 connectEvents, lastConfig, configCount, inbound, auxVars,
                 shutdownLog, errorLog, configTick>>

\* the transport's 'connect' event (first connection or reconnection)
TransportConnect ==
  /\ client = "live"
  /\ link \in {"connecting", "offline"}
  /\ connectEvents' = connectEvents + 1
  /\ link' = "connected"
  /\ timeouts' = timeouts \ {clientPromise}
  /\ isConnected' = TRUE
  /\ subscribeToTopicsFast
  /\ notifyPending' = NotifyAfterConnect(notifyPending)
  /\ resolved' = resolved \cup {clientPromise}
  /\ UNCHANGED <<procVars, appVars, displayVars, configVars, cacheVars, client,
                 connectionPromise, globalConnectionPromise, clientPromise,
                 arrivals, renderLog, rendered, preReady, shutdownTimers, gateLog,
                 connectCalls, connectAttempts, lastConfig, configCount, inbound,
                 auxVars, traceVars>>

\* the transport's 'close' / 'offline' / 'disconnect' events
TransportClose ==
  /\ client = "live"
  /\ link = "connected"
  /\ link' = "offline"
  /\ isConnected' = FALSE
  /\ UNCHANGED <<procVars, appVars, displayVars, configVars, cacheVars, subVars, client,
                 connectionPromise, globalConnectionPromise, resolved, timeouts,
                 clientPromise, notifyPending, histVars, auxVars, traceVars>>

\* the transport's 'error' event: handleError logs the error and clears the
\* connect timeout; it neither settles the promise nor writes isConnected
TransportError ==
  /\ client = "live"
  /\ timeouts' = timeouts \ {clientPromise}
  /\ errorLog' = IF isConnected THEN "connected" ELSE "disconnected"
  /\ process' = Caught(process)
  /\ UNCHANGED <<signalVars, appVars, displayVars, configVars, cacheVars, subVars, client,
                 isConnected, connectionPromise, globalConnectionPromise, resolved,
                 clientPromise, notifyPending, link, histVars, auxVars,
                 shutdownLog, timedOut, configTick>>

\* the callback of client.subscribe for topic t
SubAck(t, ok) ==
  /\ pendingSubs[t] > 0
  /\ ok => (client = "live" /\ link = "connected")
  /\ pendingSubs' = [pendingSubs EXCEPT ![t] = @ - 1]
  /\ topicsSubscribed' = IF ok THEN topicsSubscribed \cup {t} ELSE topicsSubscribed
  /\ UNCHANGED <<procVars, appVars, displayVars, configVars, cacheVars, connVars, histVars,
                 auxVars, traceVars>>

\* the setImmediate callback of handleConnect: Application.handleMqttConnected
OnMqttConnected ==
  /\ notifyPending > 0
  /\ notifyPending' = notifyPending - 1
  /\ checkAutoShutdown(imageProcessed, configProcessed, autoShutdownEnabled)
  /\ UNCHANGED <<procVars, started, displayInitialized, bufferedImage, imageProcessed,
                 configProcessed, raceDone, displayVars, configVars, cacheVars,
                 subVars, client, isConnected, connectionPromise,
                 globalConnectionPromise, resolved, timeouts, clientPromise, link,
                 arrivals, renderLog, rendered, preReady, connectCalls,
                 connectAttempts, connectEvents, subLog, lastConfig, configCount,
                 inbound, auxVars, shutdownLog, timedOut, errorLog,
                 configTick>>

\* the count of the inbound messages addressed to another device (or to none)
Inbound(topic) ==
  IF Len(topic) >= 3 /\ topic[2] = DeviceId
    THEN UNCHANGED inbound
    ELSE inbound < MaxDropped /\ inbound' = inbound + 1

\* the transport's 'message' event with an asset-class topic
DeliverImage(topic, payload) ==
  /\ client = "live" /\ link = "connected"
  /\ IsImageTopic(topic)
  /\ Inbound(topic)
  /\ IF ForThisDevice(topic)
       THEN LET msg == [id |-> Len(arrivals) + 1, payload |-> payload]
            IN /\ latestImageBuffer' = msg
               /\ imageReceived' = TRUE
               /\ arrivals' = Append(arrivals, [msg |-> msg, busy |-> inFlight])
               /\ handleImageMessage(msg)
       ELSE /\ UNCHANGED <<latestImageBuffer, imageReceived, arrivals, bufferedImage,
                           preReady, ctrlInitialized>>
            /\ NoRender
  /\ UNCHANGED <<procVars, started, displayInitialized, configProcessed, raceDone, displayInit,
                 driverAvailable, configVars, connVars, subVars, connectCalls,
                 connectAttempts, connectEvents, subLog, lastConfig, configCount,
                 auxVars, traceVars>>

\* the transport's 'message' event with a config-class topic
DeliverConfig(topic, payload) ==
  /\ client = "live" /\ link = "connected"
  /\ ~IsImageTopic(topic) /\ IsConfigTopic(topic)
  /\ Inbound(topic)
  /\ IF ForThisDevice(topic)
       THEN /\ handleConfigMessage(payload)
            /\ configTick' = "same"
       ELSE /\ UNCHANGED <<brightness, autoShutdownEnabled, configProcessed,
                           lastConfig, configCount, configTick, displayConfig,
                           gpioConfig, process>>
            /\ NoGate
  /\ UNCHANGED <<signalVars, started, displayInitialized, bufferedImage, imageProcessed, raceDone,
                 displayVars, cacheVars, connVars, subVars, arrivals, renderLog,
                 rendered, preReady, connectCalls, connectAttempts, connectEvents,
                 subLog, auxVars, shutdownLog, timedOut, errorLog>>

\* DisplayController.init resolves and initDisplayAsync goes on: the display is
\* ready, with the driver (drv) or in mock mode, and the buffer is drained
displayReady(drv) ==
  /\ displayInit = "pending"
  /\ displayInit' = "ready"
  /\ ctrlInitialized' = TRUE
  /\ driverAvailable' = drv
  /\ displayInitialized' = TRUE
  /\ processBufferedImage(TRUE, drv)
  /\ UNCHANGED <<procVars, started, configProcessed, raceDone, configVars, connVars, subVars,
                 cacheVars, arrivals, preReady, connectCalls, connectAttempts,
                 connectEvents, subLog, lastConfig, configCount, inbound,
                 gpioHandler, traceVars>>

\* adapter.init taken as one step, whatever its attempts were
InitDisplayDone(drv) ==
  /\ displayReady(drv)
  /\ UNCHANGED <<initPhase, initFailures>>

\* adapter.init finds no driver: mock mode at once
InitNoDriver ==
  /\ initPhase = "attempt" /\ initFailures = 0
  /\ initPhase' = "done"
  /\ displayReady(FALSE)
  /\ UNCHANGED initFailures

\* the child process of initializeDisplay exits with code 0
InitAttemptOk ==
  /\ initPhase = "attempt"
  /\ initPhase' = "done"
  /\ displayReady(TRUE)
  /\ UNCHANGED initFailures

\* the child process of initializeDisplay exits with another code: a retry
\* after a delay, or after the last attempt the fallback to mock mode
InitAttemptFail ==
  /\ displayInit = "pending"
  /\ initPhase = "attempt"
  /\ initFailures' = initFailures + 1
  /\ initPhase' = PhaseAfterFailure(initFailures + 1)
  /\ IF initFailures + 1 = maxAttempts
       THEN displayReady(DriverAfterFallback(TRUE))
       ELSE UNCHANGED <<procVars, appVars, displayVars, configVars, connVars, subVars,
                           cacheVars, gpioHandler, histVars, traceVars>>

\* the retry delay of adapter.init has passed: the next attempt starts
InitRetry ==
  /\ displayInit = "pending"
  /\ initPhase = "wait"
  /\ initPhase' = "attempt"
  /\ UNCHANGED <<procVars, appVars, displayVars, configVars, connVars, subVars, cacheVars,
                 gpioHandler, initFailures, histVars, traceVars>>

\* the timer of init(): Application.initGpio creates the GPIO handler (when the
\* module cannot be loaded the handler stays null, which changes nothing)
InitGpio ==
  /\ started /\ ~gpioHandler
  /\ gpioHandler' = TRUE
  /\ UNCHANGED <<procVars, appVars, displayVars, configVars, connVars, subVars, cacheVars,
                 initPhase, initFailures, histVars, traceVars>>

\* DisplayController.init rejects (the adapter could not be created)
InitDisplayFail ==
  /\ displayInit = "pending"
  /\ displayInit' = "failed"
  /\ process' = Caught(process)
  /\ UNCHANGED <<signalVars, appVars, ctrlInitialized, driverAvailable, inFlight, configVars,
                 connVars, subVars, cacheVars, histVars, auxVars, traceVars>>

\* Application.init after its Promise.race: both paths are done, or the safety
\* timeout (which is later than the connect timeout) has fired
StartupRaceDone ==
  /\ started /\ ~raceDone
  /\ \/ displayInit \in {"ready", "failed"} /\ connectCalls[1].ret \in resolved
     \/ timeouts = {}
  /\ raceDone' = TRUE
  /\ processBufferedImage(displayInitialized, driverAvailable)
  /\ ctrlInitialized' = (ctrlInitialized \/ (displayInitialized /\ bufferedImage # None))
  /\ UNCHANGED <<procVars, started, displayInitialized, configProcessed, displayInit,
                 driverAvailable, configVars, connVars, subVars, cacheVars, arrivals,
                 preReady, connectCalls, connectAttempts, connectEvents, subLog,
                 lastConfig, configCount, inbound, auxVars, shutdownLog, timedOut,
                 errorLog, configTick>>

\* the child process of a render exits with code 0: displayImage goes on
RenderDone(id) ==
  /\ id \in inFlight
  /\ inFlight' = inFlight \ {id}
  /\ imageProcessed' = TRUE
  /\ rendered' = rendered \cup {id}
  /\ checkAutoShutdown(TRUE, configProcessed, autoShutdownEnabled)
  /\ UNCHANGED <<procVars, started, displayInitialized, bufferedImage, configProcessed, raceDone,
                 displayInit, ctrlInitialized, driverAvailable, configVars, connVars,
                 subVars, cacheVars, arrivals, renderLog, preReady, connectCalls,
                 connectAttempts, connectEvents, subLog, lastConfig, configCount,
                 inbound, auxVars, traceVars>>

\* a failed render that counts as a render
FailureCountsAsRendered(processed) == TRUE

\* Application.displayImage, catch branch: imageProcessed is not written
ProcessedAfterFailure(processed) == processed

\* the render fails: displayImage logs the error in its catch branch
RenderFail(id) ==
  /\ id \in inFlight
  /\ inFlight' = inFlight \ {id}
  /\ imageProcessed' = ProcessedAfterFailure(imageProcessed)
  /\ process' = Caught(process)
  /\ UNCHANGED <<signalVars, started, displayInitialized, bufferedImage, configProcessed,
                 shuttingDown, shutdownPhase, raceDone, displayInit, ctrlInitialized, driverAvailable, configVars,
                 connVars, subVars, cacheVars, histVars, auxVars, traceVars>>

\* DisplayController.close
closeDisplay ==
  ctrlInitialized' = IF displayInit \in {"pending", "ready"} THEN FALSE
                     ELSE ctrlInitialized

\* the grace timer of shutdownSystem fires: disconnect is called
ShutdownTimer ==
  /\ shutdownPhase = "grace"
  /\ IF client # "none" /\ isConnected
       THEN \* client.end(true, callback)
            /\ shutdownPhase' = "disconnecting"
            /\ client' = "ended"
            /\ link' = "idle"
            /\ shutdownLog' = Append(shutdownLog, "disconnect")
            /\ UNCHANGED <<ctrlInitialized, platformTimer>>
       ELSE \* disconnect resolves at once
            /\ shutdownPhase' = "done"
            /\ closeDisplay
            /\ shutdownLog' = Append(shutdownLog, "disconnect")
                                \o StepsAfterDisconnect(gpioHandler)
            /\ platformTimer' = (platformTimer \/ gpioHandler)
            /\ UNCHANGED <<client, link>>
  /\ UNCHANGED <<process, sigintWaiting, exitLog, signals, started, displayInitialized, bufferedImage, imageProcessed,
                 configProcessed, shuttingDown, raceDone, displayInit,
                 driverAvailable, inFlight, configVars, isConnected,
                 connectionPromise, globalConnectionPromise, resolved, timeouts,
                 clientPromise, notifyPending, subVars, cacheVars, histVars, auxVars,
                 timedOut, errorLog, configTick>>

\* the callback of client.end: disconnect resolves and the sequence goes on
DisconnectDone ==
  /\ shutdownPhase = "disconnecting"
  /\ shutdownPhase' = "done"
  /\ isConnected' = FALSE
  /\ connectionPromise' = 0
  /\ closeDisplay
  /\ shutdownLog' = shutdownLog \o StepsAfterDisconnect(gpioHandler)
  /\ platformTimer' = (platformTimer \/ gpioHandler)
  /\ UNCHANGED <<process, sigintWaiting, exitLog, signals, started, displayInitialized, bufferedImage, imageProcessed,
                 configProcessed, shuttingDown, raceDone, displayInit,
                 driverAvailable, inFlight, configVars, client,
                 globalConnectionPromise, resolved, timeouts, clientPromise,
                 notifyPending, link, subVars, cacheVars, histVars, auxVars,
                 timedOut, errorLog, configTick>>

\* the timer of GPIOHandler.shutdownSystem fires: on a Raspberry Pi the platform
\* is told to shut down, elsewhere the process exits
PlatformShutdown(isRaspberryPi) ==
  /\ platformTimer
  /\ platformTimer' = FALSE
  /\ process' = IF isRaspberryPi THEN "off" ELSE "halted"
  /\ UNCHANGED <<progVars, histVars, traceVars, sigintWaiting, exitLog, signals>>

\* the rest of the SIGINT handler once disconnect() has resolved
gracefulExit ==
  /\ closeDisplay
  /\ exitLog' = StepsOfGracefulExit(gpioHandler)
  /\ process' = "exited"

\* SIGINT: the handler of setupGracefulShutdown calls disconnect()
Sigint ==
  /\ started
  /\ signals < MaxSignals
  /\ signals' = signals + 1
  /\ IF client # "none" /\ isConnected
       THEN \* client.end(true, callback)
            /\ sigintWaiting' = sigintWaiting + 1
            /\ client' = "ended"
            /\ link' = "idle"
            /\ UNCHANGED <<ctrlInitialized, exitLog, process>>
       ELSE \* disconnect resolves at once
            /\ gracefulExit
            /\ UNCHANGED <<sigintWaiting, client, link>>
  /\ UNCHANGED <<appVars, displayInit, driverAvailable, inFlight, configVars,
                 isConnected, connectionPromise, globalConnectionPromise, resolved,
                 timeouts, clientPromise, notifyPending, subVars, cacheVars,
                 histVars, auxVars, traceVars, platformTimer>>

\* the callback of the client.end that a SIGINT handler called
SigintDisconnectDone ==
  /\ sigintWaiting > 0
  /\ sigintWaiting' = sigintWaiting - 1
  /\ isConnected' = FALSE
  /\ connectionPromise' = 0
  /\ gracefulExit
  /\ UNCHANGED <<appVars, displayInit, driverAvailable, inFlight, configVars,
                 client, globalConnectionPromise, resolved, timeouts, clientPromise,
                 notifyPending, link, subVars, cacheVars, histVars, auxVars,
                 traceVars, platformTimer, signals>>

\* SIGTERM: no handler is registered for it, the signal ends the process
Sigterm ==
  /\ started
  /\ signals < MaxSignals
  /\ signals' = signals + 1
  /\ process' = "killed"
  /\ UNCHANGED <<progVars, histVars, traceVars, sigintWaiting, platformTimer,
                 exitLog>>

\* The whole application with its transport and display.  The handlers of the
\* application never read the subscription set or the bookkeeping of connect(),
\* so subscribe acknowledgments, the transport's error events and repeated calls
\* of connect() are left to SpecConn below; the adapter's initialization is
\* taken in one step here and attempt by attempt in SpecDisplay.
Next ==
  \/ AppInit
  \/ \E p \in timeouts : ConnectTimeout(p)
  \/ connectEvents < MaxAppConnectEvents /\ TransportConnect
  \/ TransportClose
  \/ OnMqttConnected
  \/ \E topic \in InboundTopics, payload \in Payloads :
       Len(arrivals) < MaxAppArrivals /\ DeliverImage(topic, payload)
  \/ \E topic \in InboundTopics, payload \in ConfigPayloads :
       configCount < MaxAppConfigs /\ DeliverConfig(topic, payload)
  \/ \E drv \in BOOLEAN : InitDisplayDone(drv)
  \/ InitDisplayFail
  \/ StartupRaceDone
  \/ \E id \in inFlight : RenderDone(id)
  \/ \E id \in inFlight : RenderFail(id)
  \/ ShutdownTimer
  \/ DisconnectDone
  \/ InitGpio

Spec == Init /\ [][Next]_vars

\* The asset path alone (no config message arrives, so the gate stays shut):
\* longer runs of asset arrivals against display readiness and renders.
NextAsset ==
  \/ AppInit
  \/ \E p \in timeouts : ConnectTimeout(p)
  \/ connectEvents < MaxAppConnectEvents /\ TransportConnect
  \/ OnMqttConnected
  \/ \E topic \in InboundTopics, payload \in Payloads :
       Len(arrivals) < MaxArrivals /\ DeliverImage(topic, payload)
  \/ \E drv \in BOOLEAN : InitDisplayDone(drv)
  \/ InitDisplayFail
  \/ StartupRaceDone
  \/ \E id \in inFlight : RenderDone(id)
  \/ \E id \in inFlight : RenderFail(id)

SpecAsset == Init /\ [][NextAsset]_vars

\* The connection manager alone: connect(), its timeout, the transport's events,
\* the subscribes and their acknowledgments.
NextConn ==
  \/ AppInit
  \/ ConnectAgain
  \/ \E p \in timeouts : ConnectTimeout(p)
  \/ connectEvents < MaxConnectEvents /\ TransportConnect
  \/ TransportClose
  \/ TransportError
  \/ \E t \in SubTopics, ok \in BOOLEAN : SubAck(t, ok)
  \/ OnMqttConnected

SpecConn == Init /\ [][NextConn]_vars

\* The display adapter's initialization attempt by attempt, with the assets
\* that arrive meanwhile and the renders that follow.
NextDisplay ==
  \/ AppInit
  \/ \E p \in timeouts : ConnectTimeout(p)
  \/ connectEvents < MaxAppConnectEvents /\ TransportConnect
  \/ OnMqttConnected
  \/ \E topic \in InboundTopics, payload \in Payloads :
       Len(arrivals) < MaxArrivals /\ DeliverImage(topic, payload)
  \/ InitNoDriver
  \/ InitAttemptOk
  \/ InitAttemptFail
  \/ InitRetry
  \/ \E id \in inFlight : RenderDone(id)
  \/ \E id \in inFlight : RenderFail(id)

SpecDisplay == Init /\ [][NextDisplay]_vars

\* Config updates alone, with payloads that carry a brightness in every place
\* and form the handler looks at.
NextConfig ==
  \/ AppInit
  \/ \E p \in timeouts : ConnectTimeout(p)
  \/ connectEvents < MaxAppConnectEvents /\ TransportConnect
  \/ OnMqttConnected
  \/ \E topic \in InboundTopics, payload \in UpdatePayloads :
       configCount < MaxConfigs /\ DeliverConfig(topic, payload)

SpecConfig == Init /\ [][NextConfig]_vars

\* The ways the process ends: the application with the errors its handlers
\* absorb, the two signals, and the timer of the platform shutdown.  Nothing
\* runs once the process has ended.
NextExit ==
  \/ process = "running" /\ AppInit
  \/ process = "running" /\ \E p \in timeouts : ConnectTimeout(p)
  \/ process = "running" /\ connectEvents < MaxAppConnectEvents /\ TransportConnect
  \/ process = "running" /\ TransportError
  \/ process = "running" /\ OnMqttConnected
  \/ process = "running" /\ \E topic \in InboundTopics :
       Len(arrivals) < MaxAppArrivals /\ DeliverImage(topic, "ff")
  \/ process = "running" /\ \E topic \in InboundTopics, payload \in ExitPayloads :
       configCount < MaxAppConfigs /\ DeliverConfig(topic, payload)
  \/ process = "running" /\ \E drv \in BOOLEAN : InitDisplayDone(drv)
  \/ process = "running" /\ InitDisplayFail
  \/ process = "running" /\ InitGpio
  \/ process = "running" /\ \E id \in inFlight : RenderDone(id)
  \/ process = "running" /\ \E id \in inFlight : RenderFail(id)
  \/ process = "running" /\ ShutdownTimer
  \/ process = "running" /\ DisconnectDone
  \/ process = "running" /\ \E isRaspberryPi \in BOOLEAN : PlatformShutdown(isRaspberryPi)
  \/ process = "running" /\ Sigint
  \/ process = "running" /\ SigintDisconnectDone
  \/ process = "running" /\ Sigterm

SpecExit == Init /\ [][NextExit]_vars

\* The gate and the shutdown sequence with connections that come and go.  What
\* the program schedules itself always runs: the setImmediate callback of
\* handleConnect, the connect timeout and the grace timer of shutdownSystem.
\* What the transport and the display report may never come.
NextGate ==
  \/ AppInit
  \/ \E p \in timeouts : ConnectTimeout(p)
  \/ connectEvents < MaxConnectEvents /\ TransportConnect
  \/ TransportClose
  \/ OnMqttConnected
  \/ \E topic \in InboundTopics :
       Len(arrivals) < MaxAppArrivals /\ DeliverImage(topic, "ff")
  \/ \E topic \in InboundTopics, payload \in ExitPayloads :
       configCount < MaxAppConfigs /\ DeliverConfig(topic, payload)
  \/ \E drv \in BOOLEAN : InitDisplayDone(drv)
  \/ \E id \in inFlight : RenderDone(id)
  \/ \E id \in inFlight : RenderFail(id)
  \/ InitGpio
  \/ ShutdownTimer
  \/ DisconnectDone

SpecGate ==
  /\ Init /\ [][NextGate]_vars
  /\ WF_vars(OnMqttConnected)
  /\ WF_vars(\E p \in timeouts : ConnectTimeout(p))
  /\ WF_vars(ShutdownTimer)

\* Asset messages that keep arriving once the gate has fired: during the grace
\* delay, and after the sequence has closed the display when the client was not
\* ended (the connection was down when disconnect() was called) and reconnects.
NextLate ==
  \/ AppInit
  \/ connectEvents < MaxConnectEvents /\ TransportConnect
  \/ TransportClose
  \/ OnMqttConnected
  \/ \E topic \in InboundTopics :
       Len(arrivals) < MaxLateArrivals /\ DeliverImage(topic, "ff")
  \/ \E topic \in InboundTopics, payload \in ExitPayloads :
       configCount < MaxAppConfigs /\ DeliverConfig(topic, payload)
  \/ \E drv \in BOOLEAN : InitDisplayDone(drv)
  \/ \E id \in inFlight : RenderDone(id)
  \/ InitGpio
  \/ ShutdownTimer
  \/ DisconnectDone

SpecLate == Init /\ [][NextLate]_vars

(* ------------------------------ claims -------------------------------- *)

BufferRenders == {i \in 1..Len(renderLog) : renderLog[i].src = "buffer"}

\* C1: once the display is ready after N >= 1 assets arrived before it was,
\* exactly one render has been started from the buffer, it is the first render,
\* it carries the message (payload) of the last of those arrivals, and none of
\* the earlier buffered arrivals is ever rendered; before the display is ready
\* nothing is rendered.
C1_LatestWins ==
  /\ ~displayInitialized => renderLog = <<>>
  /\ (displayInitialized /\ preReady >= 1) =>
       /\ Cardinality(BufferRenders) = 1
       /\ renderLog[1].src = "buffer"
       /\ renderLog[1].msg = arrivals[preReady].msg
       /\ \A k \in 1..Len(renderLog) : renderLog[k].msg.id >= preReady

C1_Witness ==
  /\ displayInitialized /\ raceDone
  /\ preReady >= 2
  /\ arrivals[1].msg.payload # arrivals[preReady].msg.payload
  /\ Len(renderLog) >= 2

\* C2: the grace timer of the shutdown sequence is scheduled exactly once, when
\* the latch closes; the latch never reopens and a later evaluation of the gate
\* with all conditions true schedules nothing.
C2_SingleFire == shutdownTimers = (IF shuttingDown THEN 1 ELSE 0)

C2_Witness ==
  /\ shuttingDown /\ shutdownTimers = 1
  /\ gateLog.latch /\ gateLog.conn /\ gateLog.img /\ gateLog.cfg /\ gateLog.en

\* C3: an evaluation of the gate starts the shutdown sequence exactly when the
\* transport is connected, an asset has been rendered, a config update has been
\* processed, the flag is true and the latch is open; and whenever the latch is
\* closed an image was displayed and a config message was parsed before.
C3_GateIff ==
  /\ gateLog.fired <=>
       (gateLog.conn /\ gateLog.img /\ gateLog.cfg /\ gateLog.en /\ ~gateLog.latch)
  /\ shuttingDown =>
       (rendered # {} /\ imageProcessed /\ configProcessed /\ lastConfig.parses)

C3_Witness == shuttingDown /\ gateLog.fired /\ shutdownPhase = "done"

\* C4: an asset that arrives while a render is in flight and is followed by a
\* second arrival before that render has ended is never rendered.
C4_RenderCollapsing ==
  \A i, j \in 1..Len(arrivals) :
    (i < j /\ arrivals[i].busy \cap arrivals[j].busy # {}) =>
      \A k \in 1..Len(renderLog) : renderLog[k].msg.id # i

\* C5: at most one render is in flight at any time.
C5_OneRenderInFlight == Cardinality(inFlight) <= 1

\* C6: a call of connect() made while the promise of the first call is still
\* pending returns that same promise, and mqtt.connect has been called once.
C6_ConnectIdempotent ==
  \A j \in 2..Len(connectCalls) :
    connectCalls[j].firstPending =>
      /\ connectCalls[j].ret = connectCalls[1].ret
      /\ connectCalls[j].attempts = 1

C6_Witness ==
  /\ Len(connectCalls) >= 2
  /\ connectCalls[2].firstPending
  /\ client = "live"

\* C7: a call of subscribe sends no network subscribe for a topic that is in
\* the subscription set, and leaves the set as it was.
C7_SubscribeIdempotent ==
  /\ subLog.had \cap subLog.issued = {}
  /\ subLog.after = subLog.had

C7_Witness == subLog.had = SubTopics /\ connectEvents >= 2

\* C8: per topic, at most one network subscribe is outstanding: no second one
\* is sent before the acknowledgment of the first has arrived.
C8_NoDuplicateSubscribe == \A t \in SubTopics : pendingSubs[t] <= 1

\* C9: an inbound message whose device segment is not the local identity
\* changes nothing the program holds and reaches no handler of the application.
C9_IdentityFilter ==
  [][inbound' # inbound =>
       UNCHANGED <<progVars, arrivals, renderLog, rendered, preReady,
                   shutdownTimers, gateLog, lastConfig, configCount>>]_vars

C9_Witness == inbound >= 1 /\ bufferedImage # None /\ configProcessed

\* C10: after a processed config update with brightness present and the
\* auto-shutdown field absent, the live auto-shutdown flag is false.
C10_FailSafeDefault ==
  (lastConfig.parses /\ lastConfig.display.brightness.t # "absent"
     /\ lastConfig.autoShutdown.t = "absent") => ~autoShutdownEnabled

\* C11: once the payload of the README, {"enableAutoShutdown": true,
\* "displayBrightness": 1.5}, has been processed and the gate has been evaluated
\* with the transport connected and an asset rendered, the auto-shutdown flag
\* is armed and the shutdown sequence has been started.
C11_ReadmeConfigShutsDown ==
  (lastConfig = ReadmeConfig /\ gateLog.conn /\ gateLog.img /\ gateLog.cfg) =>
    (autoShutdownEnabled /\ shuttingDown)

\* C12: after a processed config update with a numeric displayBrightness member
\* the stored brightness is that value.
C12_DisplayBrightnessStored ==
  (lastConfig.parses /\ lastConfig.displayBrightness.t = "num") =>
    brightness = lastConfig.displayBrightness

ShutdownOrder ==
  <<"disconnect", "disconnected", "displayClose", "gpioClose", "platformShutdown">>

IsPrefix(a, b) == Len(a) <= Len(b) /\ SubSeq(b, 1, Len(a)) = a

\* C13: the steps of the shutdown sequence are taken in the order disconnect
\* requested, disconnect awaited, display closed, GPIO released, platform
\* shutdown requested; none is taken before the grace timer has fired, and
\* while the disconnect is awaited no later step has been taken.
C13_ShutdownOrder ==
  /\ IsPrefix(shutdownLog, ShutdownOrder)
  /\ shutdownPhase \in {"idle", "grace"} => shutdownLog = <<>>
  /\ shutdownPhase = "disconnecting" => shutdownLog = <<"disconnect">>
  /\ shutdownPhase = "done" =>
       (Len(shutdownLog) >= 3 /\ shutdownLog[Len(shutdownLog)] # "gpioClose")

C13_Witness == client = "ended" /\ shutdownLog = ShutdownOrder

C15_TimeoutResolves ==
  \A p \in timedOut :
    /\ p \in resolved
    /\ clientPromise = p => (client = "live" /\ link # "idle")

C15_Witness ==
  /\ connectionPromise \in timedOut
  /\ link = "connecting" /\ ~isConnected /\ connectEvents = 0

\* C16: after the handler of the transport's error event has run, isConnected
\* is false.
C16_ErrorDrivesDisconnected == errorLog # "connected"

\* C17: when init() has passed its race while the display was still
\* initializing, the step that completes the display's initialization sets the
\* ready flags, empties the buffer and starts the render of the buffered asset;
\* and a transport that connects after the race is connected.
C17_LateInitUsable ==
  [][/\ (raceDone /\ displayInit = "pending" /\ displayInit' = "ready") =>
         /\ displayInitialized' /\ ctrlInitialized'
         /\ bufferedImage' = None
         /\ bufferedImage # None =>
              renderLog' = Append(renderLog, [msg |-> bufferedImage, src |-> "buffer"])
     /\ (raceDone /\ connectEvents' # connectEvents) => isConnected'
    ]_vars

C17_Witness ==
  /\ raceDone /\ displayInit = "pending" /\ bufferedImage # None
  /\ renderLog = <<>> /\ preReady >= 2

\* C18: the application's config handler never runs in the callback of the
\* 'message' event that delivered the config message.
C18_ConfigDeferred == configTick # "same"

\* C19: a stored numeric brightness lies between 0.0 and 2.0.
C19_BrightnessClamped ==
  brightness.t = "num" => (brightness.v >= 0 /\ brightness.v <= 20)

\* the payload carries a brightness the handler reads as a number
CarriesNumericBrightness(payload) ==
  \/ parseFloat(payload.display.brightness) # NaN
  \/ parseFloat(payload.brightness) # NaN

\* C20: a config update whose brightness members are absent or not numeric
\* leaves the stored brightness as it was.
C20_BrightnessFrame ==
  [][(configCount' # configCount /\ lastConfig'.parses
        /\ ~CarriesNumericBrightness(lastConfig')) =>
       brightness' = brightness]_vars

\* a step of the 'message' handler that hands payload to handleConfigMessage
ConfigStep(payload) ==
  \E topic \in InboundTopics : ForThisDevice(topic) /\ DeliverConfig(topic, payload)

\* C25: the auto-shutdown flag is false in the initial state, a config update
\* that carries the field "autoShutdown" leaves the flag true exactly when the
\* field is the boolean true (false, a string or a number leave it false), and
\* no other step changes the flag.
C25_ExplicitEnable ==
  /\ ~autoShutdownEnabled
  /\ [][/\ \A p \in UpdatePayloads :
             (ConfigStep(p) /\ p.parses /\ p.autoShutdown.t # "absent") =>
               autoShutdownEnabled' = (p.autoShutdown = JTrue)
        /\ (autoShutdownEnabled' # autoShutdownEnabled) =>
             \E p \in UpdatePayloads :
               ConfigStep(p) /\ p.parses /\ p.autoShutdown.t # "absent"]_vars

\* the flag is true after an update with the boolean true that followed another update
C25_Witness ==
  autoShutdownEnabled /\ lastConfig.autoShutdown = JTrue /\ configCount >= 2

\* C27: a config update changes no stored configuration value other than the
\* brightness and the auto-shutdown flag: the display section's other
\* sub-fields and the gpio section keep their values.
C27_OnlyRecognizedMerged ==
  displayConfig = DefaultDisplay /\ gpioConfig = Absent

\* C28: a step that handles a config payload which is not a JSON object leaves
\* the brightness, the auto-shutdown flag, configProcessed and the shutdown
\* latch unchanged and evaluates no gate.
C28_NonObjectDropped ==
  [][\A p \in UpdatePayloads :
       (ConfigStep(p) /\ ~p.object) =>
         UNCHANGED <<brightness, autoShutdownEnabled, configProcessed, shuttingDown,
                     gateLog, shutdownTimers>>]_vars

\* the ids of the messages whose render was started and has failed
FailedRenders ==
  {renderLog[i].msg.id : i \in 1..Len(renderLog)} \ (inFlight \cup rendered)

C26_RenderedOnce ==
  /\ \A i, j \in 1..Len(renderLog) :
       renderLog[i].msg.id = renderLog[j].msg.id => i = j
  /\ bufferedImage # None =>
       \A i \in 1..Len(renderLog) : renderLog[i].msg.id # bufferedImage.id

\* both drain points have run, one message was rendered from the buffer and
\* another directly
C26_Witness ==
  /\ raceDone /\ displayInitialized /\ bufferedImage = None
  /\ \E i, j \in 1..Len(renderLog) :
       renderLog[i].src = "buffer" /\ renderLog[j].src = "direct"

\* C29: every promise a call of connect() has returned is resolved or still has
\* its connect timeout scheduled, so that it resolves even when the transport
\* never connects.
C29_ConnectResolves ==
  \A i \in 1..Len(connectCalls) :
    connectCalls[i].ret \notin resolved => connectCalls[i].ret \in timeouts

\* C21: a process that a signal has ended has run the graceful close (transport
\* disconnect, then display close, then the release of the GPIO handler) and has
\* exited through its handler, without asking for the platform shutdown.
C21_SignalGracefulExit ==
  /\ process # "killed"
  /\ process = "exited" =>
       /\ IsPrefix(<<"disconnected", "displayClose">>, exitLog)
       /\ \A i \in 1..Len(exitLog) : exitLog[i] # "platformShutdown"

C22_DisconnectResolves ==
  (shutdownPhase = "disconnecting") ~> (shutdownPhase = "done")

\* the four conditions of the gate
GateConditions ==
  started /\ isConnected /\ imageProcessed /\ configProcessed /\ autoShutdownEnabled

\* C30: whenever the four conditions of the gate hold, the shutdown sequence is
\* started in the end unless one of them stops holding, whichever of them
\* became true last.
C30_NoMissedWakeUp == GateConditions ~> (shuttingDown \/ ~GateConditions)

\* the connection is the condition that became true last: the gate has not been
\* evaluated since, and the notification of the application is queued
C30_Witness ==
  GateConditions /\ ~shuttingDown /\ notifyPending > 0 /\ connectEvents >= 2

\* C31: once the shutdown sequence that the gate started has run to its end, the
\* platform shutdown has been requested, whether or not the GPIO handler
\* exists and whether or not the connection was still up after the grace delay.
C31_PlatformShutdownRequested ==
  shutdownPhase = "done" =>
    \E i \in 1..Len(shutdownLog) : shutdownLog[i] = "platformShutdown"

\* C32: after the connect timeout has resolved connect(), a 'connect' event of
\* the transport still sets isConnected, issues the subscribes for the topics
\* that are not subscribed and queues the notification of the application; and
\* every queued notification runs, which evaluates the gate.
C32_SoftTimeout ==
  /\ [][(clientPromise \in timedOut /\ connectEvents' = connectEvents + 1) =>
          /\ isConnected'
          /\ subLog'.issued = SubTopics \ topicsSubscribed
          /\ \A t \in subLog'.issued : pendingSubs'[t] = pendingSubs[t] + 1
          /\ notifyPending' = notifyPending + 1]_vars
  /\ \A n \in 1..MaxConnectEvents : (notifyPending = n) ~> (notifyPending < n)

\* the timeout resolved connect(), the transport connected later, and the gate
\* has been evaluated with the connection up
C32_Witness ==
  /\ clientPromise \in timedOut /\ clientPromise \in resolved
  /\ connectEvents >= 1 /\ isConnected /\ notifyPending = 0
  /\ gateLog.conn

C34_NoStaleBuffer ==
  (raceDone /\ displayInitialized) => bufferedImage = None

\* the display became ready after the race, with messages that had arrived
\* before it, and the buffered one has been rendered
C34_Witness ==
  /\ raceDone /\ displayInitialized /\ bufferedImage = None
  /\ preReady >= 2
  /\ \E i \in 1..Len(renderLog) : renderLog[i].src = "buffer"

\* C35: when a render completes and with it every render that was started has
\* completed, the render that completes is the one of the message that arrived
\* last, so that the display shows the latest message.
C35_LatestRenderLast ==
  [][\A id \in inFlight :
       (/\ id \notin rendered /\ id \in rendered' /\ inFlight' = {}
        /\ \A i \in 1..Len(renderLog) : renderLog[i].msg.id \in rendered') =>
         id = renderLog[Len(renderLog)].msg.id]_vars

\* C36: once the latch has closed no render is started, and once the shutdown
\* sequence has closed the display the controller is not initialized again.
C36_NoRenderAfterLatch ==
  [][/\ shuttingDown => renderLog' = renderLog
     /\ shutdownPhase = "done" => ~ctrlInitialized']_vars

\* the calls of disconnect() made so far: by the shutdown sequence, and by a
\* SIGINT handler (that awaits it or has gone on after it)
DisconnectCalls ==
  Cardinality({i \in 1..Len(shutdownLog) : shutdownLog[i] = "disconnect"})
    + (IF sigintWaiting > 0 \/ exitLog # <<>> THEN 1 ELSE 0)

\* the calls of displayController.close() made so far
DisplayCloses ==
  Cardinality({i \in 1..Len(shutdownLog) : shutdownLog[i] = "displayClose"})
    + Cardinality({i \in 1..Len(exitLog) : exitLog[i] = "displayClose"})

\* C37: disconnect() and the close of the display are each called at most once
\* in the life of the process, also when SIGINT arrives after the latch has
\* closed.
C37_CloseOnce == DisconnectCalls <= 1 /\ DisplayCloses <= 1

\* C38: once the disconnect() of the shutdown sequence has resolved, the
\* transport client has been ended, whatever isConnected was when it was called.
C38_ClientEnded ==
  shutdownPhase = "done" => client = "ended"

\* C39: a call of connect() that makes a new attempt in which mqtt.connect
\* throws (no client is created) resolves the promise it returns and leaves
\* the stored connection promise cleared.
C39_FailedConnectCleared ==
  [][(connectAttempts' = connectAttempts + 1 /\ client' = client
        /\ clientPromise' = clientPromise) =>
       /\ connectCalls'[Len(connectCalls')].ret \in resolved'
       /\ connectionPromise' = 0]_vars

====
